---- MODULE Spec2Model ----
(***************************************************************************)
(* Capture-job orchestration of the astrophoto server: the bulk capture     *)
(* jobs of app/api/bulk_capture_api.py (legacy endpoints, module registry   *)
(* active_jobs) and of app/services/bulk_capture_service.py (v2 endpoints,  *)
(* registry BulkCaptureService.active_jobs), the session calibration jobs   *)
(* of app/api/session_calibration_api.py, and the camera service they       *)
(* share.  Every endpoint is an "async def" and every CameraService method  *)
(* is an ordinary blocking call, so one event-loop thread runs one handler  *)
(* or one task segment (from one await to the next) at a time.              *)
(***************************************************************************)
EXTENDS Integers, FiniteSets, Sequences, TLC

\* ------------------------------------------------------------------ bounds
MaxCount == 2

\* job identifiers (uuid4 strings in the code) of the bulk and calibration jobs followed
BulkIds == {"b1", "b2"}
CalIds == {"c1"}
CalibrationIds == {"k1"}
Counts == 1..MaxCount
\* interval_seconds: 0 (no suspension between frames) and a positive value
Intervals == {0, 1}
SessionIds == {"s1"}
NoSession == "None"
\* outcomes of the gphoto2 calls made inside one CameraService operation
DeviceOutcomes == {"GP_OK", "GP_ERROR_MODEL_NOT_FOUND", "GP_ERROR_IO"}

\* the two SessionService objects of the application, by the module that
\* constructs them; both work on the directory projects/
SessionServices == {"session_api", "dependancies"}

\* Session(): no images, statistics.total_captures = 0
NoSessionData == [images |-> 0, total_captures |-> 0]

VARIABLES
    _camera,              \* CameraService._camera: "None" or "Camera"
    _lock,                \* CameraService._lock (threading.RLock): owner and depth
    api_op,               \* the direct camera request whose device call is in flight
    sessions,             \* session directories that exist under projects/
    jobs,                 \* the BulkCaptureJob objects, by job id
    active_jobs,          \* bulk_capture_api.active_jobs (keys)
    service_active_jobs,  \* BulkCaptureService.active_jobs (keys)
    cal_jobs,             \* session_calibration_api.CalibrationJob objects, by job id
    manager_active_jobs,  \* SessionCalibrationManager.active_jobs (keys)
    calibration_jobs,     \* calibration_api.CalibrationJob objects, by job id
    active_calibration_jobs, \* calibration_api.active_calibration_jobs (keys)
    resp,                 \* HTTP status of the request handled by the last step (0: none)
    returned,             \* what the last direct CameraService call returned or raised
    now,                  \* datetime.now(), in whole seconds
    job_ids,              \* the job ids the v2 calibration start requests returned, in order
    written,              \* <<job id, frame index, destination>> of every capture call issued
    session_data,         \* session.json by session: len(images), statistics.total_captures
    _active_session_id    \* SessionService._active_session_id, by service instance

vars == <<_camera, _lock, api_op, sessions, jobs, active_jobs, service_active_jobs,
          cal_jobs, manager_active_jobs, calibration_jobs, active_calibration_jobs, resp,
          returned, now, job_ids, written, session_data, _active_session_id>>

\* ------------------------------------------------------- camera service
is_connected == _camera # "None"

map_error(code) ==
    CASE code = "GP_ERROR_MODEL_NOT_FOUND" -> "CameraNotConnectedError"
      [] code = "GP_ERROR_IO" -> "CameraIOError"
      [] OTHER -> "CameraError"

\* CameraService.connect: the value of _camera once the call returned or raised
connect(cam, dev) == IF dev = "GP_OK" THEN "Camera" ELSE "None"

\* CameraService.connect: True, or the exception raised
connect_returns(dev) == IF dev = "GP_OK" THEN "True" ELSE map_error(dev)

\* variant: exit() without clearing the handle
DisconnectKeepsHandle(cam, dev) == cam

\* CameraService.disconnect: the value of _camera once the call returned or raised
disconnect(cam, dev) ==
    IF cam # "None" THEN (IF dev = "GP_OK" THEN "None" ELSE cam) ELSE "None"

\* CameraService.disconnect: True, or the exception raised
disconnect_returns(cam, dev) ==
    IF cam # "None" /\ dev # "GP_OK" THEN map_error(dev) ELSE "True"

\* CameraService.capture: "ok" for the result dict, else the exception raised
capture(cam, dev) ==
    IF cam = "None" THEN "CameraCaptureError"
    ELSE IF dev = "GP_OK" THEN "ok"
    ELSE map_error(dev)

\* a not-connected error as a caller sees it: CameraNotConnectedError, or the
\* CameraCaptureError that wraps the one _ensure_connected raised
IsNotConnectedError(cam, result) ==
    result = "CameraNotConnectedError" \/ (cam = "None" /\ result = "CameraCaptureError")

MainThread == "MainThread"

CanAcquire(thread) == _lock.owner \in {"None", thread}
Acquire(lock, thread) == [owner |-> thread, depth |-> lock.depth + 1]
Release(lock) ==
    IF lock.depth <= 1 THEN [owner |-> "None", depth |-> 0]
    ELSE [lock EXCEPT !.depth = @ - 1]

\* the device operations in flight
InFlight ==
    {<<"bulk", j>> : j \in {k \in BulkIds : jobs[k].pc = "capturing"}}
    \cup {<<"cal", c>> : c \in {k \in CalIds : cal_jobs[k].pc = "capturing"}}
    \cup (IF api_op = "none" THEN {} ELSE {<<"api", api_op>>})

\* variant: the device call awaited, so that the loop runs other handlers and
\* tasks while it is in flight
LoopYieldsDuringCall == TRUE

\* The event loop is free to run another handler or task segment: no blocking
\* camera call is executing on its thread.
LoopFree == InFlight = {}

\* the lock after the segment that moved a task from pc0 to pc1
LockAfter(lock, pc0, pc1) ==
    LET released == IF pc0 = "capturing" THEN Release(lock) ELSE lock
    IN  IF pc1 = "capturing" THEN Acquire(released, MainThread) ELSE released

\* ------------------------------------------------------- bulk capture job
NoJob ==
    [kind |-> "none", count |-> 0, interval_seconds |-> 0, session_id |-> NoSession,
     status |-> "none", progress |-> 0, successful_captures |-> 0,
     failed_captures |-> 0, error_message |-> "None",
     _cancelled |-> FALSE, _paused |-> FALSE, pc |-> "none", cleanup_tasks |-> 0]

\* BulkCaptureJob.__init__
NewJob(kind, count, interval, session) ==
    [NoJob EXCEPT !.kind = kind, !.count = count, !.interval_seconds = interval,
                  !.session_id = session, !.status = "running", !.pc = "start"]

pause(job) == [job EXCEPT !._paused = TRUE, !.status = "paused"]

\* variant: resume clears the flag and leaves the status
ResumeFlagOnly(job) == [job EXCEPT !._paused = FALSE]

resume(job) == [job EXCEPT !._paused = FALSE, !.status = "running"]

cancel(job) == [job EXCEPT !._cancelled = TRUE, !.status = "cancelled"]

RECURSIVE Iterate(_, _, _)

\* variant: run() ends without creating the cleanup task
FinallyWithoutCleanup(job) == [job EXCEPT !.pc = "done"]

\* the finally clause of run(): the cleanup task is created
Finally(job) == [job EXCEPT !.pc = "done", !.cleanup_tasks = @ + 1]

\* variant: the status is left as it is when the range is exhausted
AfterLoopKeepsStatus(job) == Finally(job)

\* after the loop (a break or the range exhausted)
AfterLoop(job) ==
    Finally(IF job.status = "running" THEN [job EXCEPT !.status = "completed"] ELSE job)

\* variant: the loop is left after the frame instead of going on
FrameDoneEndsLoop(job, conn, sess) == AfterLoop([job EXCEPT !.progress = @ + 1])

\* variant: the frame index is not advanced after a frame
FrameDoneKeepsIndex(job, conn, sess) ==
    IF job.interval_seconds > 0 THEN [job EXCEPT !.pc = "interval"]
    ELSE Iterate(job, conn, sess)

\* progress += 1, then the sleep between frames or the next iteration
FrameDone(job, conn, sess) ==
    LET j2 == [job EXCEPT !.progress = @ + 1]
    IN  IF j2.progress < j2.count /\ j2.interval_seconds > 0
        THEN [j2 EXCEPT !.pc = "interval"]
        ELSE Iterate(j2, conn, sess)

\* the name and the session lookups that precede the device call, inside the try
BeginFrame(job, conn, sess) ==
    IF job.session_id # NoSession /\ job.session_id \notin sess
    THEN FrameDone([job EXCEPT !.failed_captures = @ + 1], conn, sess)
    ELSE [job EXCEPT !.pc = "capturing"]

\* variant: the disconnected camera ends the loop without an error message
CheckConnectionWithoutMessage(job, conn, sess) ==
    IF ~conn THEN AfterLoop([job EXCEPT !.status = "error"]) ELSE BeginFrame(job, conn, sess)

CheckConnection(job, conn, sess) ==
    IF ~conn
    THEN AfterLoop([job EXCEPT !.error_message = "Camera disconnected during bulk capture",
                               !.status = "error"])
    ELSE BeginFrame(job, conn, sess)

\* variant: no cancellation check on leaving the pause loop
NoCancelCheckAfterWait(job, conn, sess) == CheckConnection(job, conn, sess)

CheckCancelledAfterWait(job, conn, sess) ==
    IF job._cancelled
    THEN AfterLoop([job EXCEPT !.status = "cancelled"])
    ELSE CheckConnection(job, conn, sess)

\* variant: the pause flag is not consulted
NoPauseWait(job, conn, sess) == CheckCancelledAfterWait(job, conn, sess)

\* variant: the pause loop tests the pause flag alone
WaitWhilePaused(job, conn, sess) ==
    IF job._paused
    THEN [job EXCEPT !.pc = "pause_wait"]
    ELSE CheckCancelledAfterWait(job, conn, sess)

\* while self._paused and not self._cancelled: await asyncio.sleep(0.1)
WaitIfPaused(job, conn, sess) ==
    IF job._paused /\ ~job._cancelled
    THEN [job EXCEPT !.pc = "pause_wait"]
    ELSE CheckCancelledAfterWait(job, conn, sess)

LoopTop(job, conn, sess) ==
    IF job._cancelled
    THEN AfterLoop([job EXCEPT !.status = "cancelled"])
    ELSE WaitIfPaused(job, conn, sess)

\* for i in range(self.request.count): i equals progress at the top of the loop
Iterate(job, conn, sess) ==
    IF job.progress < job.count THEN LoopTop(job, conn, sess) ELSE AfterLoop(job)

\* variant: a capture that raised is not counted
AfterCaptureFailureUncounted(job, result) ==
    IF result = "ok" THEN [job EXCEPT !.successful_captures = @ + 1] ELSE job

\* variant: a capture that returned a file is not counted
AfterCaptureSuccessUncounted(job, result) ==
    IF result = "ok" THEN job ELSE [job EXCEPT !.failed_captures = @ + 1]

\* the frame's bookkeeping once camera_service.capture has returned or raised
AfterCapture(job, result) ==
    IF result = "ok"
    THEN [job EXCEPT !.successful_captures = @ + 1]
    ELSE [job EXCEPT !.failed_captures = @ + 1]

\* variant: the estimate is computed from the frames done, not the frames left
EstimateFromProgress(job) ==
    IF job.status = "running" /\ job.interval_seconds > 0
    THEN <<"in", job.progress * job.interval_seconds>>
    ELSE <<"None">>

\* BulkCaptureJob.get_status: estimated_completion, None or the estimate
\* remaining * interval_seconds from now
estimated_completion(job) ==
    LET remaining == IF job.count - job.progress > 0 THEN job.count - job.progress ELSE 0
    IN  IF job.status = "running" /\ remaining > 0 /\ job.interval_seconds > 0
        THEN <<"in", remaining * job.interval_seconds>>
        ELSE <<"None">>

\* ------------------------------------------- session calibration job
\* results of writing the metadata file in _save_calibration_metadata
IoOutcomes == {"ok", "OSError"}
\* CalibrationFrameType, and the optional request fields (None or a value)
FrameTypes == {"dark", "bias", "flat", "flat_dark"}
ExposureTimes == {"None", "30"}
TargetAdus == {"None", "30000"}

NoCalJob ==
    [created |-> FALSE, total_frames |-> 0, delay_before_start |-> 0,
     session_id |-> NoSession, status |-> "none", completed_frames |-> 0,
     failed_frames |-> 0, captured_files |-> 0, error_message |-> "None",
     frame_type |-> "None", exposure_time |-> "None", estimated_completion |-> "None",
     _should_stop |-> FALSE, _is_paused |-> FALSE, pc |-> "none"]

\* CalibrationJob.__init__
NewCalJob(count, delay, session, frame_type, exposure_time) ==
    [NoCalJob EXCEPT !.created = TRUE, !.total_frames = count,
                     !.delay_before_start = delay, !.session_id = session,
                     !.frame_type = frame_type, !.exposure_time = exposure_time,
                     !.status = "pending", !.pc = "start"]

cal_pause(job) == [job EXCEPT !._is_paused = TRUE]

cal_resume(job) == [job EXCEPT !._is_paused = FALSE]

cal_cancel(job) == [job EXCEPT !._should_stop = TRUE, !.status = "cancelled"]

RECURSIVE CalIterate(_, _)

\* "Finalize job", the except clause around it, and the finally clause
CalFinalize(job, io) ==
    LET fin == IF job._should_stop THEN job
               ELSE IF io = "ok" THEN [job EXCEPT !.status = "completed"]
               ELSE [job EXCEPT !.status = "failed", !.error_message = io]
    IN  [fin EXCEPT !.pc = "done"]

\* while self._is_paused and not self._should_stop, then the second stop check
CalWaitIfPaused(job, io) ==
    IF job._is_paused /\ ~job._should_stop
    THEN [job EXCEPT !.pc = "pause_wait"]
    ELSE IF job._should_stop
    THEN CalFinalize(job, io)
    ELSE [job EXCEPT !.pc = "capturing"]

CalLoopTop(job, io) ==
    IF job._should_stop
    THEN CalFinalize([job EXCEPT !.status = "cancelled"], io)
    ELSE CalWaitIfPaused(job, io)

\* for frame_num in range(1, total_frames + 1): every iteration that reaches
\* the capture adds one to completed_frames or to failed_frames
CalIterate(job, io) ==
    IF job.completed_frames + job.failed_frames < job.total_frames
    THEN CalLoopTop(job, io)
    ELSE CalFinalize(job, io)

\* CalibrationJob._update_progress: a new estimate only while frames remain
cal_update_progress(job) ==
    IF job.completed_frames > 0 /\ job.total_frames - job.completed_frames > 0
    THEN [job EXCEPT !.estimated_completion = "eta"]
    ELSE job

\* the frame's bookkeeping after camera_service.capture, then the interval sleep
CalAfterCapture(job, result, io) ==
    LET booked == cal_update_progress(
                      IF result = "ok"
                      THEN [job EXCEPT !.captured_files = @ + 1, !.completed_frames = @ + 1]
                      ELSE [job EXCEPT !.failed_frames = @ + 1])
    IN  IF booked.completed_frames + booked.failed_frames < booked.total_frames
           /\ ~booked._should_stop
        THEN [booked EXCEPT !.pc = "interval"]
        ELSE CalIterate(booked, io)

\* the first segment of run(): status "running", then the start delay
CalBegin(job, io) ==
    LET started == [job EXCEPT !.status = "running"]
    IN  IF started.delay_before_start > 0
        THEN [started EXCEPT !.pc = "delay"]
        ELSE CalIterate(started, io)

\* ------------------------------------- calibration_api.CalibrationJob
NoCalibrationJob ==
    [created |-> FALSE, camera_service |-> "None", frame_type |-> "None",
     exposure_time |-> "None", target_adu |-> "None", total_frames |-> 0,
     delay_before_start |-> 0, status |-> "none", completed_frames |-> 0,
     failed_frames |-> 0, captured_files |-> 0, error_message |-> "None",
     estimated_completion |-> "unset",
     _should_stop |-> FALSE, _is_paused |-> FALSE, pc |-> "none"]

\* The job awaits camera_service.get_status(), update_settings(settings) and
\* capture(request) of the service object it was given: None as the start
\* endpoint injects it, or an object with these coroutines.
CameraServices == {"None", "service"}
\* what an awaited update_settings or capture does: return, raise, or raise
\* with a message that contains "camera disconnected"
ServiceOutcomes == {"ok", "error", "camera disconnected"}

\* CalibrationJob.__init__ (estimated_completion is not assigned there)
NewCalibrationJob(cs, frame_type, exposure_time, target_adu, count, delay) ==
    [NoCalibrationJob EXCEPT !.created = TRUE, !.camera_service = cs,
                             !.frame_type = frame_type, !.exposure_time = exposure_time,
                             !.target_adu = target_adu, !.total_frames = count,
                             !.delay_before_start = delay, !.status = "pending",
                             !.pc = "start"]

calibration_pause(job) == [job EXCEPT !._is_paused = TRUE]

calibration_resume(job) == [job EXCEPT !._is_paused = FALSE]

calibration_cancel(job) == [job EXCEPT !._should_stop = TRUE, !.status = "cancelled"]

\* the except clause of run(), then its finally clause
CalibrationFail(job, message) ==
    [job EXCEPT !.status = "failed", !.error_message = message, !.pc = "done"]

\* the parameter _setup_frame_type requires of the frame type is missing
MissingParameter(job) ==
    \/ job.frame_type \in {"dark", "flat_dark"} /\ job.exposure_time = "None"
    \/ job.frame_type = "flat" /\ job.target_adu = "None" /\ job.exposure_time = "None"

\* variant: the frame type's required parameter is not checked
SetupWithoutParameterCheck(job) == [job EXCEPT !.pc = "configuring"]

\* _setup_frame_type: raises, or awaits update_settings (every frame type that
\* passes sets shutter_speed)
_setup_frame_type(job) ==
    IF MissingParameter(job)
    THEN CalibrationFail(job, "required parameter missing")
    ELSE [job EXCEPT !.pc = "configuring"]

\* the first segment of run(): status "running", then _validate_camera_ready
CalibrationBegin(job) ==
    LET started == [job EXCEPT !.status = "running"]
    IN  IF started.camera_service = "None"
        THEN CalibrationFail(started, "AttributeError")
        ELSE [started EXCEPT !.pc = "validating"]

\* _validate_camera_ready once get_status has returned, then _setup_frame_type
CalibrationValidated(job, connected) ==
    IF ~connected
    THEN CalibrationFail(job, "Camera must be connected to start calibration")
    ELSE _setup_frame_type(job)

\* "Finalize" in run(): completed_at, _finalize_calibration_set, finally
CalibrationFinalize(job, io) ==
    IF job._should_stop THEN [job EXCEPT !.pc = "done"]
    ELSE IF io = "ok" THEN [job EXCEPT !.status = "completed", !.pc = "done"]
    ELSE CalibrationFail(job, io)

\* one pass of the pause loop of _capture_loop and the stop check after it
CalibrationWaitIfPaused(job, io) ==
    IF job._is_paused /\ ~job._should_stop
    THEN [job EXCEPT !.pc = "pause_wait"]
    ELSE IF job._should_stop
    THEN CalibrationFinalize(job, io)
    ELSE [job EXCEPT !.pc = "capturing"]

\* for frame_num in range(self.total_frames): frame_num is the number of
\* frames attempted so far
_capture_loop(job, io) ==
    IF job.completed_frames + job.failed_frames < job.total_frames
    THEN IF job._should_stop
         THEN CalibrationFinalize(job, io)
         ELSE CalibrationWaitIfPaused(job, io)
    ELSE CalibrationFinalize(job, io)

\* calibration_api.CalibrationJob._update_progress
calibration_update_progress(job) ==
    IF job.completed_frames > 0
    THEN [job EXCEPT !.estimated_completion = "eta"]
    ELSE job

\* variant: the captured file's name is not kept
CalibrationAfterCaptureFileDropped(job, out, io) ==
    IF out = "ok"
    THEN LET booked == calibration_update_progress([job EXCEPT !.completed_frames = @ + 1])
         IN  IF booked.completed_frames + booked.failed_frames < booked.total_frames
             THEN [booked EXCEPT !.pc = "interval"]
             ELSE _capture_loop(booked, io)
    ELSE LET failed == [job EXCEPT !.failed_frames = @ + 1]
         IN  IF out = "camera disconnected"
             THEN CalibrationFail(failed, out)
             ELSE _capture_loop(failed, io)

\* the rest of the try block of _capture_loop after _capture_single_frame
\* (captured_files counts the entries of the list), or its except clause
CalibrationAfterCapture(job, out, io) ==
    IF out = "ok"
    THEN LET booked == calibration_update_progress(
                           [job EXCEPT !.completed_frames = @ + 1, !.captured_files = @ + 1])
         IN  IF booked.completed_frames + booked.failed_frames < booked.total_frames
             THEN [booked EXCEPT !.pc = "interval"]
             ELSE _capture_loop(booked, io)
    ELSE LET failed == [job EXCEPT !.failed_frames = @ + 1]
         IN  IF out = "camera disconnected"
             THEN CalibrationFail(failed, out)
             ELSE _capture_loop(failed, io)

\* after _setup_frame_type: the start delay, then the capture loop
CalibrationAfterSetup(job, out, io) ==
    IF out # "ok" THEN CalibrationFail(job, out)
    ELSE IF job.delay_before_start > 0 THEN [job EXCEPT !.pc = "delay"]
    ELSE _capture_loop(job, io)

\* CalibrationJob.get_status: the attribute estimated_completion does not
\* exist until _update_progress has assigned it
calibration_get_status(job) ==
    IF job.estimated_completion = "unset" THEN "AttributeError" ELSE job.status

\* ----------------------------------------------------------------- Init
Init ==
    /\ _camera = "None"
    /\ _lock = [owner |-> "None", depth |-> 0]
    /\ api_op = "none"
    /\ sessions = {}
    /\ jobs = [j \in BulkIds |-> NoJob]
    /\ active_jobs = {}
    /\ service_active_jobs = {}
    /\ cal_jobs = [c \in CalIds |-> NoCalJob]
    /\ manager_active_jobs = {}
    /\ calibration_jobs = [k \in CalibrationIds |-> NoCalibrationJob]
    /\ active_calibration_jobs = {}
    /\ resp = 0
    /\ returned = <<"none", "none">>
    /\ now = 0
    /\ job_ids = <<>>
    /\ written = {}
    /\ session_data = [s \in SessionIds |-> NoSessionData]
    /\ _active_session_id = [service \in SessionServices |-> "None"]

\* ------------------------------------------------- bulk capture: requests
\* job_id = str(uuid4()): an identifier no earlier job has
Fresh(j) == jobs[j].kind = "none"

SessionArgs == {NoSession} \cup SessionIds

\* POST /api/bulk-capture/start
start_bulk_capture(j, count, interval, session) ==
    /\ LoopFree
    /\ IF ~is_connected
       THEN resp' = 503 /\ UNCHANGED <<jobs, active_jobs>>
       ELSE IF session # NoSession /\ session \notin sessions
       THEN resp' = 404 /\ UNCHANGED <<jobs, active_jobs>>
       ELSE /\ Fresh(j)
            /\ jobs' = [jobs EXCEPT ![j] = NewJob("legacy", count, interval, session)]
            /\ active_jobs' = active_jobs \cup {j}
            /\ resp' = 200
    /\ UNCHANGED <<_camera, _lock, api_op, sessions, service_active_jobs, cal_jobs,
                   manager_active_jobs,
                   calibration_jobs, active_calibration_jobs,
                   returned, now, job_ids,
                   written, session_data, _active_session_id>>

\* the pause endpoint without its status check
PauseWithoutStatusCheck(j) ==
    /\ LoopFree
    /\ IF j \notin active_jobs
       THEN resp' = 404 /\ UNCHANGED jobs
       ELSE jobs' = [jobs EXCEPT ![j] = pause(@)] /\ resp' = 200
    /\ UNCHANGED <<_camera, _lock, api_op, sessions, active_jobs, service_active_jobs,
                   cal_jobs, manager_active_jobs,
                   calibration_jobs, active_calibration_jobs,
                   returned, now, job_ids,
                   written, session_data, _active_session_id>>

\* POST /api/bulk-capture/{job_id}/pause
pause_bulk_capture(j) ==
    /\ LoopFree
    /\ IF j \notin active_jobs
       THEN resp' = 404 /\ UNCHANGED jobs
       ELSE IF jobs[j].status # "running"
       THEN resp' = 400 /\ UNCHANGED jobs
       ELSE jobs' = [jobs EXCEPT ![j] = pause(@)] /\ resp' = 200
    /\ UNCHANGED <<_camera, _lock, api_op, sessions, active_jobs, service_active_jobs,
                   cal_jobs, manager_active_jobs,
                   calibration_jobs, active_calibration_jobs,
                   returned, now, job_ids,
                   written, session_data, _active_session_id>>

\* POST /api/bulk-capture/{job_id}/resume
resume_bulk_capture(j) ==
    /\ LoopFree
    /\ IF j \notin active_jobs
       THEN resp' = 404 /\ UNCHANGED jobs
       ELSE IF jobs[j].status # "paused"
       THEN resp' = 400 /\ UNCHANGED jobs
       ELSE jobs' = [jobs EXCEPT ![j] = resume(@)] /\ resp' = 200
    /\ UNCHANGED <<_camera, _lock, api_op, sessions, active_jobs, service_active_jobs,
                   cal_jobs, manager_active_jobs,
                   calibration_jobs, active_calibration_jobs,
                   returned, now, job_ids,
                   written, session_data, _active_session_id>>

\* POST /api/bulk-capture/{job_id}/cancel
cancel_bulk_capture(j) ==
    /\ LoopFree
    /\ IF j \notin active_jobs
       THEN resp' = 404 /\ UNCHANGED jobs
       ELSE IF jobs[j].status \in {"completed", "cancelled"}
       THEN resp' = 400 /\ UNCHANGED jobs
       ELSE jobs' = [jobs EXCEPT ![j] = cancel(@)] /\ resp' = 200
    /\ UNCHANGED <<_camera, _lock, api_op, sessions, active_jobs, service_active_jobs,
                   cal_jobs, manager_active_jobs,
                   calibration_jobs, active_calibration_jobs,
                   returned, now, job_ids,
                   written, session_data, _active_session_id>>

\* GET /api/bulk-capture/{job_id}/status
get_bulk_capture_status(j) ==
    /\ LoopFree
    /\ resp' = IF j \notin active_jobs THEN 404 ELSE 200
    /\ UNCHANGED <<_camera, _lock, api_op, sessions, jobs, active_jobs,
                   service_active_jobs, cal_jobs, manager_active_jobs,
                   calibration_jobs, active_calibration_jobs,
                   returned, now, job_ids,
                   written, session_data, _active_session_id>>

\* POST /api/v2/bulk-capture/start, which calls BulkCaptureService.start_job
v2_start_bulk_capture(j, count, interval, session) ==
    /\ LoopFree
    /\ IF ~is_connected
       THEN resp' = 503 /\ UNCHANGED <<jobs, service_active_jobs>>
       ELSE IF session # NoSession /\ session \notin sessions
       THEN resp' = 500 /\ UNCHANGED <<jobs, service_active_jobs>>
       ELSE /\ Fresh(j)
            /\ jobs' = [jobs EXCEPT ![j] = NewJob("service", count, interval, session)]
            /\ service_active_jobs' = service_active_jobs \cup {j}
            /\ resp' = 200
    /\ UNCHANGED <<_camera, _lock, api_op, sessions, active_jobs, cal_jobs,
                   manager_active_jobs,
                   calibration_jobs, active_calibration_jobs,
                   returned, now, job_ids,
                   written, session_data, _active_session_id>>

\* BulkCaptureService.pause_job under POST /api/v2/bulk-capture/{job_id}/pause
pause_job(j) ==
    /\ LoopFree
    /\ IF j \in service_active_jobs
       THEN jobs' = [jobs EXCEPT ![j] = pause(@)] /\ resp' = 200
       ELSE resp' = 404 /\ UNCHANGED jobs
    /\ UNCHANGED <<_camera, _lock, api_op, sessions, active_jobs, service_active_jobs,
                   cal_jobs, manager_active_jobs,
                   calibration_jobs, active_calibration_jobs,
                   returned, now, job_ids,
                   written, session_data, _active_session_id>>

\* BulkCaptureService.resume_job under POST /api/v2/bulk-capture/{job_id}/resume
resume_job(j) ==
    /\ LoopFree
    /\ IF j \in service_active_jobs
       THEN jobs' = [jobs EXCEPT ![j] = resume(@)] /\ resp' = 200
       ELSE resp' = 404 /\ UNCHANGED jobs
    /\ UNCHANGED <<_camera, _lock, api_op, sessions, active_jobs, service_active_jobs,
                   cal_jobs, manager_active_jobs,
                   calibration_jobs, active_calibration_jobs,
                   returned, now, job_ids,
                   written, session_data, _active_session_id>>

\* cancel_job acting on the job object without the registry lookup
CancelJobWithoutLookup(j) ==
    /\ LoopFree
    /\ jobs' = [jobs EXCEPT ![j] = cancel(@)]
    /\ resp' = 200
    /\ UNCHANGED <<_camera, _lock, api_op, sessions, active_jobs, service_active_jobs,
                   cal_jobs, manager_active_jobs,
                   calibration_jobs, active_calibration_jobs,
                   returned, now, job_ids,
                   written, session_data, _active_session_id>>

\* BulkCaptureService.cancel_job under POST /api/v2/bulk-capture/{job_id}/cancel
cancel_job(j) ==
    /\ LoopFree
    /\ IF j \in service_active_jobs
       THEN jobs' = [jobs EXCEPT ![j] = cancel(@)] /\ resp' = 200
       ELSE resp' = 404 /\ UNCHANGED jobs
    /\ UNCHANGED <<_camera, _lock, api_op, sessions, active_jobs, service_active_jobs,
                   cal_jobs, manager_active_jobs,
                   calibration_jobs, active_calibration_jobs,
                   returned, now, job_ids,
                   written, session_data, _active_session_id>>

\* BulkCaptureService.get_job under GET /api/v2/bulk-capture/{job_id}/status
get_job(j) ==
    /\ LoopFree
    /\ resp' = IF j \in service_active_jobs THEN 200 ELSE 404
    /\ UNCHANGED <<_camera, _lock, api_op, sessions, jobs, active_jobs,
                   service_active_jobs, cal_jobs, manager_active_jobs,
                   calibration_jobs, active_calibration_jobs,
                   returned, now, job_ids,
                   written, session_data, _active_session_id>>

\* ------------------------------------------------------------ file names
\* f"{n:03d}": at least three digits, zero padded
Pad3(n) ==
    IF n < 10 THEN "00" \o ToString(n)
    ELSE IF n < 100 THEN "0" \o ToString(n)
    ELSE ToString(n)

\* datetime.now().strftime("%Y%m%d_%H%M%S"), the clock counted in seconds
strftime(time) ==
    "20260101_0000" \o (IF time < 10 THEN "0" \o ToString(time) ELSE ToString(time))

\* session.target of the session the name is generated for
Target(session) == "m31"

\* variant: the sequence number is left out of the name
ImageNameWithoutSequence(job, sequence, time) ==
    (IF job.session_id # NoSession THEN Target(job.session_id) ELSE "bulk")
        \o "_" \o strftime(time)

\* BulkCaptureJob._generate_image_name for a request without base_name
_generate_image_name(job, sequence, time) ==
    (IF job.session_id # NoSession THEN Target(job.session_id) ELSE "bulk")
        \o "_" \o Pad3(sequence) \o "_" \o strftime(time)

\* the file CameraService.capture saves for a bulk capture frame:
\* save_to_path / f"{image_name}.{ext}"
BulkDestination(job, sequence, time) ==
    (IF job.session_id # NoSession
     THEN "projects/" \o job.session_id \o "/captures"
     ELSE "captures/default")
        \o "/" \o _generate_image_name(job, sequence, time) \o ".jpg"

\* exposure_time.replace("/", "-").replace('"', "s")
exp_safe(exposure_time) ==
    CASE exposure_time = "1/60" -> "1-60"
      [] exposure_time = "30\"" -> "30s"
      [] OTHER -> exposure_time

\* session_calibration_api CalibrationJob._generate_filename
\* (current_temperature is never set)
_generate_filename(job, frame_number, time) ==
    job.frame_type
        \o (IF job.exposure_time # "None" THEN "_exp" \o exp_safe(job.exposure_time) ELSE "")
        \o "_" \o strftime(time) \o "_f" \o Pad3(frame_number)

\* output_directory / f"{filename}.{ext}"
CalDestination(job, frame_number, time) ==
    "projects/" \o job.session_id \o "/calibration/" \o job.frame_type
        \o "/" \o _generate_filename(job, frame_number, time) \o ".jpg"

\* calibration_api CalibrationJob._generate_filename for a request without
\* base_name and iso; temperature is current_temperature, "None" or a reading
calibration_generate_filename(job, temperature, frame_number, time) ==
    LET params == (IF job.exposure_time # "None" THEN "exp" \o exp_safe(job.exposure_time) ELSE "")
                  \o (IF job.exposure_time # "None" /\ temperature # "None" THEN "_" ELSE "")
                  \o (IF temperature # "None" THEN "temp" \o temperature \o "C" ELSE "")
    IN  job.frame_type \o "_frame"
            \o (IF params # "" THEN "_" \o params ELSE "")
            \o "_" \o strftime(time) \o "_f" \o Pad3(frame_number)

\* variant: the image is appended without the statistics being updated
AddImageWithoutStatistics(data) == [data EXCEPT !.images = @ + 1]

\* SessionService.add_image_to_session on the loaded session, then saved
add_image_to_session(data) ==
    [data EXCEPT !.images = @ + 1, !.total_captures = @ + 1]

\* ----------------------------------------------------- bulk capture: task
\* one segment of BulkCaptureJob.run, from the suspension at pc to the next one
BulkSegment(j, new) ==
    /\ CanAcquire(MainThread)
    /\ jobs' = [jobs EXCEPT ![j] = new]
    /\ _lock' = LockAfter(_lock, jobs[j].pc, new.pc)
    /\ written' = IF new.pc = "capturing"
                  THEN written \cup {<<j, new.progress + 1,
                                       BulkDestination(new, new.progress + 1, now)>>}
                  ELSE written
    /\ resp' = 0
    /\ UNCHANGED <<_camera, api_op, sessions, active_jobs, service_active_jobs, cal_jobs,
                   manager_active_jobs,
                   calibration_jobs, active_calibration_jobs,
                   returned, now, job_ids, _active_session_id>>

\* the task created by asyncio.create_task(job.run()) runs its first segment
run(j) ==
    /\ LoopFree
    /\ jobs[j].pc = "start"
    /\ BulkSegment(j, Iterate(jobs[j], is_connected, sessions))
    /\ UNCHANGED session_data

\* asyncio.sleep(0.1) of the pause loop returns
WakeFromPauseWait(j) ==
    /\ LoopFree
    /\ jobs[j].pc = "pause_wait"
    /\ BulkSegment(j, WaitIfPaused(jobs[j], is_connected, sessions))
    /\ UNCHANGED session_data

\* asyncio.sleep(interval_seconds) returns
WakeFromInterval(j) ==
    /\ LoopFree
    /\ jobs[j].pc = "interval"
    /\ BulkSegment(j, Iterate(jobs[j], is_connected, sessions))
    /\ UNCHANGED session_data

\* camera_service.capture returns or raises inside the job
\* (a session job then registers the file with add_image_to_session, which
\* may raise on writing session.json)
CaptureReturns(j, dev) ==
    /\ jobs[j].pc = "capturing"
    /\ \E io \in IoOutcomes :
           LET result == capture(_camera, dev)
               adds == result = "ok" /\ jobs[j].session_id # NoSession
               outcome == IF adds /\ io # "ok" THEN io ELSE result
           IN  /\ BulkSegment(j, FrameDone(AfterCapture(jobs[j], outcome),
                                           is_connected, sessions))
               /\ session_data' =
                      IF adds /\ io = "ok"
                      THEN [session_data EXCEPT
                                ![jobs[j].session_id] = add_image_to_session(@)]
                      ELSE session_data

\* a cleanup that empties the registry instead of deleting its own job
CleanupClearsRegistry(j) ==
    /\ LoopFree
    /\ jobs[j].cleanup_tasks > 0
    /\ jobs' = [jobs EXCEPT ![j].cleanup_tasks = @ - 1]
    /\ active_jobs' = IF jobs[j].kind = "legacy" THEN {} ELSE active_jobs
    /\ service_active_jobs' = IF jobs[j].kind = "service" THEN {} ELSE service_active_jobs
    /\ resp' = 0
    /\ UNCHANGED <<_camera, _lock, api_op, sessions, cal_jobs, manager_active_jobs,
                   calibration_jobs, active_calibration_jobs,
                   returned, now, job_ids,
                   written, session_data, _active_session_id>>

\* _cleanup_after_delay: asyncio.sleep(300) returns
_cleanup_after_delay(j) ==
    /\ LoopFree
    /\ jobs[j].cleanup_tasks > 0
    /\ jobs' = [jobs EXCEPT ![j].cleanup_tasks = @ - 1]
    /\ active_jobs' = IF jobs[j].kind = "legacy" THEN active_jobs \ {j} ELSE active_jobs
    /\ service_active_jobs' =
           IF jobs[j].kind = "service" THEN service_active_jobs \ {j} ELSE service_active_jobs
    /\ resp' = 0
    /\ UNCHANGED <<_camera, _lock, api_op, sessions, cal_jobs, manager_active_jobs,
                   calibration_jobs, active_calibration_jobs,
                   returned, now, job_ids,
                   written, session_data, _active_session_id>>

\* ------------------------------------------------------ camera requests
\* POST /api/camera/connect up to the device call of CameraService.connect
connect_camera ==
    /\ LoopFree
    /\ IF is_connected
       THEN resp' = 200 /\ UNCHANGED <<_camera, _lock, api_op>>
       ELSE /\ CanAcquire(MainThread)
            /\ _lock' = Acquire(_lock, MainThread)
            /\ _camera' = "Camera"
            /\ api_op' = "connect"
            /\ resp' = 0
    /\ UNCHANGED <<sessions, jobs, active_jobs, service_active_jobs, cal_jobs,
                   manager_active_jobs,
                   calibration_jobs, active_calibration_jobs,
                   returned, now, job_ids,
                   written, session_data, _active_session_id>>

\* POST /api/camera/disconnect up to the device call of CameraService.disconnect
disconnect_camera ==
    /\ LoopFree
    /\ IF ~is_connected
       THEN resp' = 200 /\ UNCHANGED <<_lock, api_op>>
       ELSE /\ CanAcquire(MainThread)
            /\ _lock' = Acquire(_lock, MainThread)
            /\ api_op' = "disconnect"
            /\ resp' = 0
    /\ UNCHANGED <<_camera, sessions, jobs, active_jobs, service_active_jobs, cal_jobs,
                   manager_active_jobs,
                   calibration_jobs, active_calibration_jobs,
                   returned, now, job_ids,
                   written, session_data, _active_session_id>>

\* POST /api/camera/capture and /api/camera/preview up to the device call
capture_or_preview(op) ==
    /\ LoopFree
    /\ IF ~is_connected
       THEN resp' = 500 /\ UNCHANGED <<_lock, api_op>>
       ELSE /\ CanAcquire(MainThread)
            /\ _lock' = Acquire(_lock, MainThread)
            /\ api_op' = op
            /\ resp' = 0
    /\ UNCHANGED <<_camera, sessions, jobs, active_jobs, service_active_jobs, cal_jobs,
                   manager_active_jobs,
                   calibration_jobs, active_calibration_jobs,
                   returned, now, job_ids,
                   written, session_data, _active_session_id>>

\* the response of a direct request once its device call returned or raised
ApiResponse(op, dev) ==
    CASE op = "connect" -> IF dev = "GP_OK" THEN 200 ELSE 503
      [] op = "disconnect" -> IF dev = "GP_OK" THEN 200 ELSE 500
      [] OTHER -> IF dev = "GP_OK" THEN 200
                  ELSE IF map_error(dev) = "CameraNotConnectedError" THEN 503 ELSE 500

\* the device call of the direct request returns or raises
ApiReturns(dev) ==
    /\ api_op # "none"
    /\ _camera' = CASE api_op = "connect" -> connect(_camera, dev)
                    [] api_op = "disconnect" -> disconnect(_camera, dev)
                    [] OTHER -> _camera
    /\ resp' = ApiResponse(api_op, dev)
    /\ api_op' = "none"
    /\ _lock' = Release(_lock)
    /\ UNCHANGED <<sessions, jobs, active_jobs, service_active_jobs, cal_jobs,
                   manager_active_jobs,
                   calibration_jobs, active_calibration_jobs,
                   returned, now, job_ids,
                   written, session_data, _active_session_id>>

\* a caller other than the endpoints calls a CameraService method: the call
\* blocks the thread from its start to its return, under the service's lock
ServiceCall(cam, result) ==
    /\ LoopFree
    /\ CanAcquire(MainThread)
    /\ _camera' = cam
    /\ returned' = result
    /\ resp' = 0
    /\ UNCHANGED <<_lock, api_op, sessions, jobs, active_jobs, service_active_jobs,
                   cal_jobs, manager_active_jobs, calibration_jobs,
                   active_calibration_jobs, now, job_ids,
                   written, session_data, _active_session_id>>

CameraService_connect(dev) ==
    ServiceCall(connect(_camera, dev), <<"connect", connect_returns(dev)>>)

CameraService_disconnect(dev) ==
    ServiceCall(disconnect(_camera, dev), <<"disconnect", disconnect_returns(_camera, dev)>>)

CameraService_capture(dev) ==
    ServiceCall(_camera, <<"capture", capture(_camera, dev)>>)

\* ------------------------------------------------------------- sessions
create_session(s) ==
    /\ LoopFree
    /\ s \notin sessions
    /\ sessions' = sessions \cup {s}
    /\ session_data' = [session_data EXCEPT ![s] = NoSessionData]
    /\ resp' = 200
    /\ UNCHANGED <<_camera, _lock, api_op, jobs, active_jobs, service_active_jobs,
                   cal_jobs, manager_active_jobs,
                   calibration_jobs, active_calibration_jobs,
                   returned, now, job_ids,
                   written, _active_session_id>>

\* DELETE /api/sessions/{id} (the SessionService of session_api) or
\* DELETE /api/v2/sessions/{id} (the one of dependancies): delete_session
\* clears the active session of the object it is called on, then removes the
\* directory
delete_session(s) ==
    /\ LoopFree
    /\ \E service \in SessionServices :
           IF s \in sessions
           THEN /\ _active_session_id' =
                       IF _active_session_id[service] = s
                       THEN [_active_session_id EXCEPT ![service] = "None"]
                       ELSE _active_session_id
                /\ sessions' = sessions \ {s}
                /\ session_data' = [session_data EXCEPT ![s] = NoSessionData]
                /\ resp' = 200
           ELSE resp' = 404 /\ UNCHANGED <<sessions, session_data, _active_session_id>>
    /\ UNCHANGED <<_camera, _lock, api_op, jobs, active_jobs, service_active_jobs,
                   cal_jobs, manager_active_jobs,
                   calibration_jobs, active_calibration_jobs,
                   returned, now, job_ids, written>>

\* POST /api/sessions/{id}/activate and /deactivate, and their v2 forms:
\* SessionService.set_active_session(session_id or None)
set_active_session(service, s) ==
    /\ LoopFree
    /\ IF s # "None" /\ s \notin sessions
       THEN resp' = 404 /\ UNCHANGED _active_session_id
       ELSE /\ _active_session_id' = [_active_session_id EXCEPT ![service] = s]
            /\ resp' = 200
    /\ UNCHANGED <<_camera, _lock, api_op, jobs, active_jobs, service_active_jobs,
                   cal_jobs, manager_active_jobs,
                   calibration_jobs, active_calibration_jobs,
                   returned, now, job_ids,
                   written, sessions, session_data>>

\* SessionService.get_active_session: an active id whose session.json is
\* gone is cleared
get_active_session(service) ==
    /\ LoopFree
    /\ _active_session_id' =
           IF _active_session_id[service] # "None" /\ _active_session_id[service] \notin sessions
           THEN [_active_session_id EXCEPT ![service] = "None"]
           ELSE _active_session_id
    /\ resp' = 0
    /\ UNCHANGED <<_camera, _lock, api_op, jobs, active_jobs, service_active_jobs,
                   cal_jobs, manager_active_jobs,
                   calibration_jobs, active_calibration_jobs,
                   returned, now, job_ids,
                   written, sessions, session_data>>

\* ------------------------------------- session calibration: requests
\* POST /api/sessions/{session_id}/calibration/start
start_calibration_capture(c, session, count, delay, frame_type, exposure_time) ==
    /\ LoopFree
    /\ IF session \notin sessions
       THEN resp' = 500 /\ UNCHANGED <<cal_jobs, manager_active_jobs>>
       ELSE /\ ~cal_jobs[c].created
            /\ cal_jobs' = [cal_jobs EXCEPT ![c] =
                               NewCalJob(count, delay, session, frame_type, exposure_time)]
            /\ manager_active_jobs' = manager_active_jobs \cup {c}
            /\ resp' = 200
    /\ UNCHANGED <<_camera, _lock, api_op, sessions, jobs, active_jobs,
                   service_active_jobs,
                   calibration_jobs, active_calibration_jobs,
                   returned, now, job_ids,
                   written, session_data, _active_session_id>>

\* the checks every calibration control endpoint makes first: 0 when they pass
CalLookup(session, c) ==
    IF c \notin manager_active_jobs THEN 404
    ELSE IF cal_jobs[c].session_id # session THEN 403
    ELSE 0

\* POST /api/sessions/{session_id}/calibration/{job_id}/pause
pause_calibration(session, c) ==
    /\ LoopFree
    /\ IF CalLookup(session, c) # 0
       THEN resp' = CalLookup(session, c) /\ UNCHANGED cal_jobs
       ELSE IF cal_jobs[c].status # "running"
       THEN resp' = 400 /\ UNCHANGED cal_jobs
       ELSE cal_jobs' = [cal_jobs EXCEPT ![c] = cal_pause(@)] /\ resp' = 200
    /\ UNCHANGED <<_camera, _lock, api_op, sessions, jobs, active_jobs,
                   service_active_jobs, manager_active_jobs,
                   calibration_jobs, active_calibration_jobs,
                   returned, now, job_ids,
                   written, session_data, _active_session_id>>

\* POST /api/sessions/{session_id}/calibration/{job_id}/resume
resume_calibration(session, c) ==
    /\ LoopFree
    /\ IF CalLookup(session, c) # 0
       THEN resp' = CalLookup(session, c) /\ UNCHANGED cal_jobs
       ELSE IF cal_jobs[c].status # "paused"
       THEN resp' = 400 /\ UNCHANGED cal_jobs
       ELSE cal_jobs' = [cal_jobs EXCEPT ![c] = cal_resume(@)] /\ resp' = 200
    /\ UNCHANGED <<_camera, _lock, api_op, sessions, jobs, active_jobs,
                   service_active_jobs, manager_active_jobs,
                   calibration_jobs, active_calibration_jobs,
                   returned, now, job_ids,
                   written, session_data, _active_session_id>>

\* POST /api/sessions/{session_id}/calibration/{job_id}/cancel
cancel_calibration(session, c) ==
    /\ LoopFree
    /\ IF CalLookup(session, c) # 0
       THEN resp' = CalLookup(session, c) /\ UNCHANGED cal_jobs
       ELSE IF cal_jobs[c].status \in {"completed", "cancelled"}
       THEN resp' = 400 /\ UNCHANGED cal_jobs
       ELSE cal_jobs' = [cal_jobs EXCEPT ![c] = cal_cancel(@)] /\ resp' = 200
    /\ UNCHANGED <<_camera, _lock, api_op, sessions, jobs, active_jobs,
                   service_active_jobs, manager_active_jobs,
                   calibration_jobs, active_calibration_jobs,
                   returned, now, job_ids,
                   written, session_data, _active_session_id>>

\* ----------------------------------------- session calibration: task
\* one segment of CalibrationJob.run; the finally clause removes the job
\* from manager.active_jobs when the task ends
CalSegment(c, new) ==
    /\ CanAcquire(MainThread)
    /\ cal_jobs' = [cal_jobs EXCEPT ![c] = new]
    /\ manager_active_jobs' =
           IF new.pc = "done" THEN manager_active_jobs \ {c} ELSE manager_active_jobs
    /\ _lock' = LockAfter(_lock, cal_jobs[c].pc, new.pc)
    /\ written' =
           IF new.pc = "capturing"
           THEN written \cup {<<c, new.completed_frames + new.failed_frames + 1,
                                CalDestination(new, new.completed_frames + new.failed_frames + 1,
                                               now)>>}
           ELSE written
    /\ resp' = 0
    /\ UNCHANGED <<_camera, api_op, sessions, jobs, active_jobs, service_active_jobs,
                   calibration_jobs, active_calibration_jobs,
                   returned, now, job_ids, session_data, _active_session_id>>

cal_run(c, io) ==
    /\ LoopFree
    /\ cal_jobs[c].pc = "start"
    /\ CalSegment(c, CalBegin(cal_jobs[c], io))

\* asyncio.sleep(delay_before_start) returns
CalWakeFromDelay(c, io) ==
    /\ LoopFree
    /\ cal_jobs[c].pc = "delay"
    /\ CalSegment(c, CalIterate(cal_jobs[c], io))

\* asyncio.sleep(0.5) of the pause loop returns
CalWakeFromPauseWait(c, io) ==
    /\ LoopFree
    /\ cal_jobs[c].pc = "pause_wait"
    /\ CalSegment(c, CalWaitIfPaused(cal_jobs[c], io))

\* asyncio.sleep(interval_seconds) returns
CalWakeFromInterval(c, io) ==
    /\ LoopFree
    /\ cal_jobs[c].pc = "interval"
    /\ CalSegment(c, CalIterate(cal_jobs[c], io))

\* camera_service.capture returns or raises inside the calibration job
CalCaptureReturns(c, dev, io) ==
    /\ cal_jobs[c].pc = "capturing"
    /\ CalSegment(c, CalAfterCapture(cal_jobs[c], capture(_camera, dev), io))

\* ------------------------------------------------ v2 calibration requests
\* job_id = f"cal_{session_id}_{frame_type}_{now:%Y%m%d_%H%M%S}"
v2_job_id(session, frame_type, time) == <<"cal", session, frame_type, time>>

\* POST /api/v2/calibration/{session_id}/start: the checks, the job id and the
\* 'pending' status object of the response; no job object is created or stored
v2_start_calibration_capture(session, frame_type) ==
    /\ LoopFree
    /\ IF session \notin sessions
       THEN resp' = 500 /\ UNCHANGED job_ids
       ELSE IF ~is_connected
       THEN resp' = 503 /\ UNCHANGED job_ids
       ELSE /\ Len(job_ids) <= MaxCount
            /\ job_ids' = Append(job_ids, v2_job_id(session, frame_type, now))
            /\ resp' = 200
    /\ UNCHANGED <<_camera, _lock, api_op, sessions, jobs, active_jobs, service_active_jobs,
                   cal_jobs, manager_active_jobs, calibration_jobs,
                   active_calibration_jobs, returned, now,
                   written, session_data, _active_session_id>>

\* the wall clock reaches the next second
Tick ==
    /\ now < MaxCount
    /\ now' = now + 1
    /\ UNCHANGED <<_camera, _lock, api_op, sessions, jobs, active_jobs, service_active_jobs,
                   cal_jobs, manager_active_jobs, calibration_jobs,
                   active_calibration_jobs, resp, returned, job_ids,
                   written, session_data, _active_session_id>>

\* ------------------------------------------ calibration_api: requests
CalibrationUnchanged ==
    UNCHANGED <<_camera, _lock, api_op, sessions, jobs, active_jobs, service_active_jobs,
                cal_jobs, manager_active_jobs,
                returned, now, job_ids,
                   written, session_data, _active_session_id>>

\* POST /calibration/start: the job is stored and its task created, then
\* job.get_status() builds the response
start_calibration(k, cs, frame_type, exposure_time, target_adu, count, delay) ==
    /\ LoopFree
    /\ ~calibration_jobs[k].created
    /\ LET job == NewCalibrationJob(cs, frame_type, exposure_time, target_adu, count, delay)
       IN  /\ calibration_jobs' = [calibration_jobs EXCEPT ![k] = job]
           /\ resp' = IF calibration_get_status(job) = "AttributeError" THEN 500 ELSE 200
    /\ active_calibration_jobs' = active_calibration_jobs \cup {k}
    /\ CalibrationUnchanged

\* POST /calibration/batch with one request in the list: the job is created
\* with no camera service and stored; no task is created for it
start_calibration_batch(k, frame_type, exposure_time, target_adu, count, delay) ==
    /\ LoopFree
    /\ ~calibration_jobs[k].created
    /\ calibration_jobs' =
           [calibration_jobs EXCEPT ![k] =
               [NewCalibrationJob("None", frame_type, exposure_time, target_adu, count, delay)
                   EXCEPT !.pc = "none"]]
    /\ active_calibration_jobs' = active_calibration_jobs \cup {k}
    /\ resp' = 200
    /\ CalibrationUnchanged

\* POST /calibration/{job_id}/pause
calibration_api_pause(k) ==
    /\ LoopFree
    /\ IF k \notin active_calibration_jobs
       THEN resp' = 404 /\ UNCHANGED calibration_jobs
       ELSE IF calibration_jobs[k].status # "running"
       THEN resp' = 400 /\ UNCHANGED calibration_jobs
       ELSE /\ calibration_jobs' = [calibration_jobs EXCEPT ![k] = calibration_pause(@)]
            /\ resp' = 200
    /\ UNCHANGED active_calibration_jobs
    /\ CalibrationUnchanged

\* POST /calibration/{job_id}/resume
calibration_api_resume(k) ==
    /\ LoopFree
    /\ IF k \notin active_calibration_jobs
       THEN resp' = 404 /\ UNCHANGED calibration_jobs
       ELSE IF calibration_jobs[k].status # "paused"
       THEN resp' = 400 /\ UNCHANGED calibration_jobs
       ELSE /\ calibration_jobs' = [calibration_jobs EXCEPT ![k] = calibration_resume(@)]
            /\ resp' = 200
    /\ UNCHANGED active_calibration_jobs
    /\ CalibrationUnchanged

\* POST /calibration/{job_id}/cancel
calibration_api_cancel(k) ==
    /\ LoopFree
    /\ IF k \notin active_calibration_jobs
       THEN resp' = 404 /\ UNCHANGED calibration_jobs
       ELSE IF calibration_jobs[k].status \in {"completed", "cancelled"}
       THEN resp' = 400 /\ UNCHANGED calibration_jobs
       ELSE /\ calibration_jobs' = [calibration_jobs EXCEPT ![k] = calibration_cancel(@)]
            /\ resp' = 200
    /\ UNCHANGED active_calibration_jobs
    /\ CalibrationUnchanged

\* ---------------------------------------------- calibration_api: task
\* one segment of calibration_api.CalibrationJob.run; nothing removes the job
\* from active_calibration_jobs
CalibrationSegment(k, new) ==
    /\ LoopFree
    /\ calibration_jobs' = [calibration_jobs EXCEPT ![k] = new]
    /\ resp' = 0
    /\ UNCHANGED active_calibration_jobs
    /\ CalibrationUnchanged

calibration_run(k) ==
    /\ calibration_jobs[k].pc = "start"
    /\ CalibrationSegment(k, CalibrationBegin(calibration_jobs[k]))

\* await camera_service.get_status() of _validate_camera_ready returns
CalibrationStatusReturns(k, connected) ==
    /\ calibration_jobs[k].pc = "validating"
    /\ CalibrationSegment(k, CalibrationValidated(calibration_jobs[k], connected))

\* await camera_service.update_settings(settings) returns or raises
CalibrationSettingsReturn(k, out, io) ==
    /\ calibration_jobs[k].pc = "configuring"
    /\ CalibrationSegment(k, CalibrationAfterSetup(calibration_jobs[k], out, io))

\* asyncio.sleep(delay_before_start) or asyncio.sleep(interval_seconds) returns
CalibrationWake(k, io) ==
    /\ calibration_jobs[k].pc \in {"delay", "interval"}
    /\ CalibrationSegment(k, _capture_loop(calibration_jobs[k], io))

\* asyncio.sleep(0.1) of the pause loop returns
CalibrationWakeFromPauseWait(k, io) ==
    /\ calibration_jobs[k].pc = "pause_wait"
    /\ CalibrationSegment(k, CalibrationWaitIfPaused(calibration_jobs[k], io))

\* _capture_single_frame returns or raises
CalibrationCaptureReturns(k, out, io) ==
    /\ calibration_jobs[k].pc = "capturing"
    /\ CalibrationSegment(k, CalibrationAfterCapture(calibration_jobs[k], out, io))

\* ----------------------------------------------------------------- Next
BulkNext(ids) ==
    \/ \E j \in ids, n \in Counts, iv \in Intervals, s \in SessionArgs :
           start_bulk_capture(j, n, iv, s)
    \/ \E j \in ids, n \in Counts, iv \in Intervals, s \in SessionArgs :
           v2_start_bulk_capture(j, n, iv, s)
    \/ \E j \in ids : get_bulk_capture_status(j)
    \/ \E j \in ids : pause_bulk_capture(j)
    \/ \E j \in ids : resume_bulk_capture(j)
    \/ \E j \in ids : cancel_bulk_capture(j)
    \/ \E j \in ids : get_job(j)
    \/ \E j \in ids : pause_job(j)
    \/ \E j \in ids : resume_job(j)
    \/ \E j \in ids : cancel_job(j)
    \/ \E j \in ids : run(j)
    \/ \E j \in ids : WakeFromPauseWait(j)
    \/ \E j \in ids : WakeFromInterval(j)
    \/ \E j \in ids, dev \in DeviceOutcomes : CaptureReturns(j, dev)
    \/ \E j \in ids : _cleanup_after_delay(j)

CalNext ==
    \/ \E c \in CalIds, s \in SessionIds, n \in Counts, d \in {0, 1},
          ft \in FrameTypes, exp \in ExposureTimes :
           start_calibration_capture(c, s, n, d, ft, exp)
    \/ \E c \in CalIds, s \in SessionIds : pause_calibration(s, c)
    \/ \E c \in CalIds, s \in SessionIds : resume_calibration(s, c)
    \/ \E c \in CalIds, s \in SessionIds : cancel_calibration(s, c)
    \/ \E c \in CalIds, io \in IoOutcomes : cal_run(c, io)
    \/ \E c \in CalIds, io \in IoOutcomes : CalWakeFromDelay(c, io)
    \/ \E c \in CalIds, io \in IoOutcomes : CalWakeFromPauseWait(c, io)
    \/ \E c \in CalIds, io \in IoOutcomes : CalWakeFromInterval(c, io)
    \/ \E c \in CalIds, dev \in DeviceOutcomes, io \in IoOutcomes :
           CalCaptureReturns(c, dev, io)

CameraNext ==
    \/ connect_camera
    \/ disconnect_camera
    \/ \E op \in {"capture", "preview"} : capture_or_preview(op)
    \/ \E dev \in DeviceOutcomes : ApiReturns(dev)

SessionNext ==
    \/ \E s \in SessionIds : create_session(s)
    \/ \E s \in SessionIds : delete_session(s)

\* one bulk capture job, the camera requests and the sessions
SoloIds == {"b1"}
Next == BulkNext(SoloIds) \/ CameraNext \/ SessionNext
Spec == Init /\ [][Next]_vars

\* one session calibration job, the camera requests and the sessions
NextCal == CalNext \/ CameraNext \/ SessionNext
SpecCal == Init /\ [][NextCal]_vars

\* one calibration_api job with the service object it awaits
NextCalibration ==
    \/ \E k \in CalibrationIds, cs \in CameraServices, ft \in FrameTypes,
          exp \in ExposureTimes, adu \in TargetAdus, n \in Counts, d \in {0, 1} :
           start_calibration(k, cs, ft, exp, adu, n, d)
    \/ \E k \in CalibrationIds : calibration_api_pause(k)
    \/ \E k \in CalibrationIds : calibration_api_resume(k)
    \/ \E k \in CalibrationIds : calibration_api_cancel(k)
    \/ \E k \in CalibrationIds : calibration_run(k)
    \/ \E k \in CalibrationIds, connected \in BOOLEAN : CalibrationStatusReturns(k, connected)
    \/ \E k \in CalibrationIds, out \in ServiceOutcomes, io \in IoOutcomes :
           CalibrationSettingsReturn(k, out, io)
    \/ \E k \in CalibrationIds, io \in IoOutcomes : CalibrationWake(k, io)
    \/ \E k \in CalibrationIds, io \in IoOutcomes : CalibrationWakeFromPauseWait(k, io)
    \/ \E k \in CalibrationIds, out \in ServiceOutcomes, io \in IoOutcomes :
           CalibrationCaptureReturns(k, out, io)
SpecCalibration == Init /\ [][NextCalibration]_vars

\* a session calibration job and a calibration_api job, both of bias frames
\* without start delay, with their cancel requests
NextFiles ==
    \/ \E c \in CalIds, s \in SessionIds, n \in Counts :
           start_calibration_capture(c, s, n, 0, "bias", "None")
    \/ \E c \in CalIds, s \in SessionIds : cancel_calibration(s, c)
    \/ \E c \in CalIds, io \in IoOutcomes : cal_run(c, io)
    \/ \E c \in CalIds, io \in IoOutcomes : CalWakeFromInterval(c, io)
    \/ \E c \in CalIds, dev \in DeviceOutcomes, io \in IoOutcomes :
           CalCaptureReturns(c, dev, io)
    \/ connect_camera
    \/ \E dev \in DeviceOutcomes : ApiReturns(dev)
    \/ \E s \in SessionIds : create_session(s)
    \/ \E k \in CalibrationIds, n \in Counts :
           start_calibration(k, "service", "bias", "None", "None", n, 0)
    \/ \E k \in CalibrationIds : calibration_api_cancel(k)
    \/ \E k \in CalibrationIds : calibration_run(k)
    \/ \E k \in CalibrationIds : CalibrationStatusReturns(k, TRUE)
    \/ \E k \in CalibrationIds, io \in IoOutcomes : CalibrationSettingsReturn(k, "ok", io)
    \/ \E k \in CalibrationIds, io \in IoOutcomes : CalibrationWake(k, io)
    \/ \E k \in CalibrationIds, out \in ServiceOutcomes, io \in IoOutcomes :
           CalibrationCaptureReturns(k, out, io)
SpecFiles == Init /\ [][NextFiles]_vars

\* the session requests on both SessionService objects, with the camera
\* requests and the clock
NextSessions ==
    \/ \E s \in SessionIds : create_session(s)
    \/ \E s \in SessionIds : delete_session(s)
    \/ \E service \in SessionServices, s \in SessionIds \cup {"None"} :
           set_active_session(service, s)
    \/ \E service \in SessionServices : get_active_session(service)
    \/ CameraNext
    \/ Tick
SpecSessions == Init /\ [][NextSessions]_vars

\* the calibration endpoints with the batch request; a task that was created
\* gets to run
NextBatch ==
    \/ \E k \in CalibrationIds, ft \in FrameTypes, exp \in ExposureTimes,
          adu \in TargetAdus, n \in Counts, d \in {0, 1} :
           start_calibration_batch(k, ft, exp, adu, n, d)
    \/ NextCalibration
SpecBatch ==
    /\ Init
    /\ [][NextBatch]_vars
    /\ \A k \in CalibrationIds : WF_vars(calibration_run(k))

\* The event loop runs ready callbacks first in, first out: a task whose sleep
\* has expired runs once the handler ahead of it returns, and a blocking
\* device call returns (or raises) in finite time.
Fairness ==
    /\ \A j \in SoloIds : SF_vars(run(j))
    /\ \A j \in SoloIds : SF_vars(WakeFromPauseWait(j))
    /\ \A j \in SoloIds : SF_vars(WakeFromInterval(j))
    /\ \A j \in SoloIds : WF_vars(\E dev \in DeviceOutcomes : CaptureReturns(j, dev))
    /\ WF_vars(\E dev \in DeviceOutcomes : ApiReturns(dev))
SpecLive == Init /\ [][Next]_vars /\ Fairness

\* two bulk capture jobs (one of each registry, capturing to the default
\* location), a session calibration job (of bias frames) and the direct camera
\* requests, all running on the one event loop
NextMutex ==
    \/ \E n \in Counts, iv \in Intervals : start_bulk_capture("b1", n, iv, NoSession)
    \/ \E n \in Counts, iv \in Intervals : v2_start_bulk_capture("b2", n, iv, NoSession)
    \/ \E j \in BulkIds : run(j)
    \/ \E j \in BulkIds : WakeFromInterval(j)
    \/ \E j \in BulkIds, dev \in DeviceOutcomes : CaptureReturns(j, dev)
    \/ \E c \in CalIds, s \in SessionIds, n \in Counts, d \in {0, 1} :
           start_calibration_capture(c, s, n, d, "bias", "None")
    \/ \E c \in CalIds, io \in IoOutcomes : cal_run(c, io)
    \/ \E c \in CalIds, io \in IoOutcomes : CalWakeFromDelay(c, io)
    \/ \E c \in CalIds, io \in IoOutcomes : CalWakeFromInterval(c, io)
    \/ \E c \in CalIds, dev \in DeviceOutcomes, io \in IoOutcomes :
           CalCaptureReturns(c, dev, io)
    \/ CameraNext
    \/ \E s \in SessionIds : create_session(s)
SpecMutex == Init /\ [][NextMutex]_vars

\* two jobs of BulkCaptureService side by side in its one registry, with the
\* control calls and the camera connection they share
NextPair ==
    \/ \E j \in BulkIds, n \in Counts : v2_start_bulk_capture(j, n, 0, NoSession)
    \/ \E j \in BulkIds : pause_job(j)
    \/ \E j \in BulkIds : resume_job(j)
    \/ \E j \in BulkIds : cancel_job(j)
    \/ \E j \in BulkIds : run(j)
    \/ \E j \in BulkIds : WakeFromPauseWait(j)
    \/ \E j \in BulkIds, dev \in DeviceOutcomes : CaptureReturns(j, dev)
    \/ \E j \in BulkIds : _cleanup_after_delay(j)
    \/ connect_camera
    \/ disconnect_camera
    \/ \E dev \in DeviceOutcomes : ApiReturns(dev)
SpecPair == Init /\ [][NextPair]_vars

\* one bulk capture job and one session calibration job with their control
\* calls, sharing the camera
NextFrames ==
    \/ \E n \in Counts, iv \in Intervals : v2_start_bulk_capture("b1", n, iv, NoSession)
    \/ pause_job("b1") \/ resume_job("b1") \/ cancel_job("b1")
    \/ run("b1") \/ WakeFromPauseWait("b1") \/ WakeFromInterval("b1")
    \/ \E dev \in DeviceOutcomes : CaptureReturns("b1", dev)
    \/ \E c \in CalIds, s \in SessionIds, n \in Counts :
           start_calibration_capture(c, s, n, 0, "bias", "None")
    \/ \E c \in CalIds, s \in SessionIds : pause_calibration(s, c)
    \/ \E c \in CalIds, s \in SessionIds : resume_calibration(s, c)
    \/ \E c \in CalIds, s \in SessionIds : cancel_calibration(s, c)
    \/ \E c \in CalIds : cal_run(c, "ok")
    \/ \E c \in CalIds : CalWakeFromPauseWait(c, "ok")
    \/ \E c \in CalIds : CalWakeFromInterval(c, "ok")
    \/ \E c \in CalIds, dev \in DeviceOutcomes : CalCaptureReturns(c, dev, "ok")
    \/ connect_camera
    \/ disconnect_camera
    \/ \E dev \in DeviceOutcomes : ApiReturns(dev)
    \/ \E s \in SessionIds : create_session(s)
SpecFrames == Init /\ [][NextFrames]_vars

\* direct calls of the CameraService methods next to the camera endpoints and
\* one bulk capture job that uses the same service
NextService ==
    \/ \E dev \in DeviceOutcomes : CameraService_connect(dev)
    \/ \E dev \in DeviceOutcomes : CameraService_disconnect(dev)
    \/ \E dev \in DeviceOutcomes : CameraService_capture(dev)
    \/ \E n \in Counts, iv \in Intervals : v2_start_bulk_capture("b1", n, iv, NoSession)
    \/ run("b1")
    \/ WakeFromInterval("b1")
    \/ \E dev \in DeviceOutcomes : CaptureReturns("b1", dev)
    \/ CameraNext
SpecService == Init /\ [][NextService]_vars

\* the v2 calibration start request, the clock, the sessions and the camera
NextIds ==
    \/ \E s \in SessionIds, ft \in FrameTypes : v2_start_calibration_capture(s, ft)
    \/ Tick
    \/ CameraNext
    \/ SessionNext
SpecIds == Init /\ [][NextIds]_vars

\* a bulk capture job and a session calibration job generating the names of
\* their frames while the clock runs
NextNames ==
    \/ \E iv \in Intervals, s \in SessionArgs : v2_start_bulk_capture("b1", MaxCount, iv, s)
    \/ run("b1") \/ WakeFromInterval("b1")
    \/ CaptureReturns("b1", "GP_OK")
    \/ \E c \in CalIds, s \in SessionIds, exp \in ExposureTimes :
           start_calibration_capture(c, s, MaxCount, 0, "dark", exp)
    \/ \E c \in CalIds : cal_run(c, "ok")
    \/ \E c \in CalIds : CalWakeFromInterval(c, "ok")
    \/ \E c \in CalIds : CalCaptureReturns(c, "GP_OK", "ok")
    \/ connect_camera
    \/ \E dev \in DeviceOutcomes : ApiReturns(dev)
    \/ \E s \in SessionIds : create_session(s)
    \/ Tick
SpecNames == Init /\ [][NextNames]_vars

\* ------------------------------------------------------------ properties
Registered(j) == j \in active_jobs \cup service_active_jobs

Created == {j \in BulkIds : jobs[j].kind # "none"}

\* C1: a bulk capture job created with count = N whose status is 'completed'
\* has progress = N and successful_captures + failed_captures = N.
C1_CompletedCountsEveryFrame ==
    \A j \in Created :
        jobs[j].status = "completed" =>
            /\ jobs[j].progress = jobs[j].count
            /\ jobs[j].successful_captures + jobs[j].failed_captures = jobs[j].count

\* a completed job of several frames, some captured and some failed
C1_Witness ==
    \E j \in Created :
        /\ jobs[j].status = "completed"
        /\ jobs[j].count >= 2
        /\ jobs[j].successful_captures >= 1
        /\ jobs[j].failed_captures >= 1

\* C2: once a cancel request on a bulk capture job has been accepted, the job
\* starts no further capture call and its progress, successful_captures and
\* failed_captures never change, whatever requests follow.
C2_NoCaptureAfterCancel ==
    [][\A j \in Created :
           jobs[j]._cancelled =>
               /\ jobs'[j].pc # "capturing"
               /\ jobs'[j].progress = jobs[j].progress
               /\ jobs'[j].successful_captures = jobs[j].successful_captures
               /\ jobs'[j].failed_captures = jobs[j].failed_captures]_vars

\* a job cancelled between two frames, whose task has since ended
C2_Witness ==
    \E j \in Created :
        /\ jobs[j]._cancelled
        /\ jobs[j].pc = "done"
        /\ 0 < jobs[j].progress
        /\ jobs[j].progress < jobs[j].count

\* C3: once a cancel request on a bulk capture job has been accepted, the
\* job's status is 'cancelled' in every later state until the job is evicted.
C3_StatusStaysCancelled ==
    \A j \in Created :
        (jobs[j]._cancelled /\ Registered(j)) => jobs[j].status = "cancelled"

\* C4: a pause request on a registered bulk capture job whose status is
\* 'completed' is rejected (400) and leaves the status 'completed', through
\* the legacy endpoint and through BulkCaptureService.pause_job.
C4_PauseCompletedRejected ==
    [][\A j \in Created :
           (/\ jobs[j].status = "completed"
            /\ Registered(j)
            /\ (pause_bulk_capture(j) \/ pause_job(j))) =>
               (resp' = 400 /\ jobs'[j].status = "completed")]_vars

\* C5: a cancel request on a registered bulk capture job whose status is
\* 'error', 'completed' or 'cancelled' is rejected (400) and does not change
\* the job's status.
C5_CancelOnlyWhenActive ==
    [][\A j \in Created :
           (/\ jobs[j].status \in {"error", "completed", "cancelled"}
            /\ Registered(j)
            /\ (cancel_bulk_capture(j) \/ cancel_job(j))) =>
               (resp' = 400 /\ jobs'[j].status = jobs[j].status)]_vars

\* C6: when the capture call of a running bulk capture job raises a
\* not-connected error, the job aborts: its task ends with status 'error',
\* error_message set and progress < count.
C6_NotConnectedAborts ==
    [][\A j \in Created :
           (/\ IsNotConnectedError(_camera, capture(_camera, "GP_ERROR_MODEL_NOT_FOUND"))
            /\ CaptureReturns(j, "GP_ERROR_MODEL_NOT_FOUND")) =>
               /\ jobs'[j].pc = "done"
               /\ jobs'[j].status = "error"
               /\ jobs'[j].error_message # "None"
               /\ jobs'[j].progress < jobs'[j].count]_vars

\* C7: after a pause request on a session calibration job has been accepted,
\* a resume request on that job (still registered, not cancelled) is accepted
\* (200) and clears the pause, so that the job goes on with its frames.
C7_ResumeAfterPauseAccepted ==
    [][\A c \in CalIds, s \in SessionIds :
           (/\ cal_jobs[c]._is_paused
            /\ ~cal_jobs[c]._should_stop
            /\ c \in manager_active_jobs
            /\ cal_jobs[c].session_id = s
            /\ resume_calibration(s, c)) =>
               (resp' = 200 /\ ~cal_jobs'[c]._is_paused)]_vars

\* C8: while a bulk capture job is paused (pause accepted, no resume or cancel
\* accepted since) it starts no capture call and its progress does not change.
C8_PausedMakesNoProgress ==
    [][\A j \in Created :
           (jobs[j]._paused /\ ~jobs[j]._cancelled) =>
               /\ jobs'[j].pc # "capturing"
               /\ jobs'[j].progress = jobs[j].progress]_vars

\* a job paused between two frames, waiting in its pause loop
C8_Witness ==
    \E j \in Created :
        /\ jobs[j]._paused /\ ~jobs[j]._cancelled
        /\ jobs[j].pc = "pause_wait"
        /\ 0 < jobs[j].progress
        /\ jobs[j].progress < jobs[j].count

\* a job waiting in its pause loop whose resume request has been accepted
Resumed(j) ==
    /\ jobs[j].pc = "pause_wait"
    /\ ~jobs[j]._paused
    /\ ~jobs[j]._cancelled

\* C9: a paused bulk capture job whose resume request has been accepted
\* eventually reaches status 'completed' with progress = count, unless it is
\* paused again, cancelled, or finds the camera disconnected.
C9_ResumedCompletes ==
    \A j \in SoloIds :
        Resumed(j) ~>
            \/ jobs[j].status = "completed" /\ jobs[j].progress = jobs[j].count
            \/ jobs[j]._paused
            \/ jobs[j]._cancelled
            \/ jobs[j].status = "error"

\* a resumed job with frames left to capture
C9_Witness ==
    \E j \in SoloIds : Resumed(j) /\ jobs[j].progress < jobs[j].count

\* C10: at most one CameraService device operation is in flight at any time,
\* and the lock is held exactly while one is.
C10_OneDeviceOperation ==
    /\ Cardinality(InFlight) <= 1
    /\ _lock.depth = Cardinality(InFlight)

\* a bulk job inside its capture call while the other bulk job, the
\* calibration job and their sleeps are pending on the loop
C10_Witness ==
    /\ jobs["b1"].pc = "capturing"
    /\ jobs["b2"].pc \in {"start", "interval"}
    /\ cal_jobs["c1"].pc \in {"start", "delay", "interval"}

\* C11: a bulk capture job stays in its registry while its task runs and,
\* once the task has ended, until its one scheduled removal fires; every way
\* out of run() schedules exactly one removal, and only that removal evicts.
C11_RetainedThenEvictedOnce ==
    \A j \in Created :
        /\ jobs[j].pc # "done" => (jobs[j].cleanup_tasks = 0 /\ Registered(j))
        /\ jobs[j].pc = "done" =>
               \/ jobs[j].cleanup_tasks = 1 /\ Registered(j)
               \/ jobs[j].cleanup_tasks = 0 /\ ~Registered(j)

\* a job that ended by the error path and has been evicted by its removal
C11_Witness ==
    \E j \in Created :
        /\ jobs[j].pc = "done"
        /\ jobs[j].status = "error"
        /\ jobs[j].cleanup_tasks = 0
        /\ ~Registered(j)

\* C12: a session calibration job whose task has finished is still in the
\* manager's registry, so that its terminal status can be queried.
C12_CalTerminalStatusQueryable ==
    \A c \in CalIds : cal_jobs[c].pc = "done" => c \in manager_active_jobs

\* C13: a calibration request for dark frames without exposure_time is
\* rejected at creation: no such job is in the registry, none is ever
\* 'running', and none makes a camera call.
C13_DarkWithoutExposureRejected ==
    \A c \in CalIds :
        (cal_jobs[c].frame_type = "dark" /\ cal_jobs[c].exposure_time = "None") =>
            /\ c \notin manager_active_jobs
            /\ cal_jobs[c].status # "running"
            /\ cal_jobs[c].pc # "capturing"

\* C14: a calibration_api job whose frame type lacks its required parameter
\* never makes a capture call and keeps completed_frames = 0, and its task
\* ends with status 'failed' and error_message set.
C14_MissingParameterNeverCaptures ==
    [][\A k \in CalibrationIds :
           (calibration_jobs'[k].created /\ MissingParameter(calibration_jobs'[k])) =>
               /\ calibration_jobs'[k].pc # "capturing"
               /\ calibration_jobs'[k].completed_frames = 0
               /\ (calibration_jobs[k].pc # "done" /\ calibration_jobs'[k].pc = "done") =>
                      /\ calibration_jobs'[k].status = "failed"
                      /\ calibration_jobs'[k].error_message # "None"]_vars

\* a job given a service object and a connected camera that failed in
\* _setup_frame_type
C14_Witness ==
    \E k \in CalibrationIds :
        /\ MissingParameter(calibration_jobs[k])
        /\ calibration_jobs[k].camera_service = "service"
        /\ calibration_jobs[k].pc = "done"
        /\ calibration_jobs[k].status = "failed"
        /\ calibration_jobs[k].error_message = "required parameter missing"

\* the task of job j runs a segment that reaches the connection check: it is
\* neither cancelled nor paused and has frames left
ReachesConnectionCheck(j) ==
    /\ run(j) \/ WakeFromPauseWait(j) \/ WakeFromInterval(j)
    /\ ~jobs[j]._cancelled
    /\ ~jobs[j]._paused
    /\ jobs[j].progress < jobs[j].count

\* C15: a bulk capture job that reaches the connection check with the camera
\* not connected makes no capture call and ends with status 'error', an
\* error_message and progress < count; a job whose status is 'error' always
\* has an error_message.
C15_DisconnectedEndsInError ==
    [][\A j \in Created :
           /\ (ReachesConnectionCheck(j) /\ ~is_connected) =>
                  /\ jobs'[j].pc = "done"
                  /\ jobs'[j].status = "error"
                  /\ jobs'[j].error_message # "None"
                  /\ jobs'[j].progress = jobs[j].progress
                  /\ jobs'[j].progress < jobs'[j].count
           /\ jobs'[j].status = "error" => jobs'[j].error_message # "None"]_vars

\* a job stopped by the connection check after its first frame
C15_Witness ==
    \E j \in Created :
        /\ jobs[j].status = "error"
        /\ jobs[j].pc = "done"
        /\ ~is_connected
        /\ 0 < jobs[j].progress
        /\ jobs[j].progress < jobs[j].count

\* C16: when the capture of a frame raises an error that is not a disconnect,
\* failed_captures and progress each grow by one, successful_captures is
\* unchanged, and with frames left the job goes on to the next frame.
C16_FrameFailureCountedAndSkipped ==
    [][\A j \in Created :
           CaptureReturns(j, "GP_ERROR_IO") =>
               /\ jobs'[j].failed_captures = jobs[j].failed_captures + 1
               /\ jobs'[j].progress = jobs[j].progress + 1
               /\ jobs'[j].successful_captures = jobs[j].successful_captures
               /\ jobs'[j].progress < jobs'[j].count =>
                      /\ jobs'[j].pc \in {"interval", "capturing"}
                      /\ jobs'[j].status = jobs[j].status]_vars

\* a job capturing its last frame after an earlier frame failed
C16_Witness ==
    \E j \in Created :
        /\ jobs[j].pc = "capturing"
        /\ jobs[j].failed_captures >= 1
        /\ jobs[j].successful_captures = 0
        /\ jobs[j].progress = jobs[j].failed_captures

\* C17: the status query of a registered bulk capture job reports no
\* estimated_completion while progress = 0.
C17_NoEstimateBeforeFirstFrame ==
    \A j \in Created :
        (Registered(j) /\ jobs[j].progress = 0) => estimated_completion(jobs[j]) = <<"None">>

C19_CompletedHasAllFrames ==
    \A c \in CalIds :
        cal_jobs[c].status = "completed" =>
            cal_jobs[c].completed_frames = cal_jobs[c].total_frames

\* C20: a registered session calibration job that is paused (pause accepted,
\* no cancel since) reports status 'paused'.
C20_PausedReportsPaused ==
    \A c \in CalIds :
        (/\ c \in manager_active_jobs
         /\ cal_jobs[c]._is_paused
         /\ ~cal_jobs[c]._should_stop) =>
            cal_jobs[c].status = "paused"

\* C21: through the legacy bulk endpoints a pause is accepted (200) only when
\* the job's status is 'running' and a resume only when it is 'paused'; a
\* pause, resume or cancel request that is rejected (400 or 404) leaves every
\* field of every job and the registry unchanged.
C21_LegacyControlGuarded ==
    [][\A j \in BulkIds :
           /\ (pause_bulk_capture(j) /\ resp' = 200) => jobs[j].status = "running"
           /\ (resume_bulk_capture(j) /\ resp' = 200) => jobs[j].status = "paused"
           /\ ((pause_bulk_capture(j) \/ resume_bulk_capture(j) \/ cancel_bulk_capture(j))
                  /\ resp' # 200) =>
                  (jobs' = jobs /\ active_jobs' = active_jobs)
           /\ (j \in active_jobs /\ jobs[j].status # "running" /\ pause_bulk_capture(j)) =>
                  (resp' = 400 /\ jobs' = jobs)
           /\ (j \in active_jobs /\ jobs[j].status # "paused" /\ resume_bulk_capture(j)) =>
                  (resp' = 400 /\ jobs' = jobs)]_vars

\* a registered legacy job that is paused in the middle of its frames after a
\* request was rejected with 400
C21_Witness ==
    \E j \in BulkIds :
        /\ j \in active_jobs
        /\ jobs[j].status = "paused"
        /\ jobs[j].progress >= 1
        /\ jobs[j].progress < jobs[j].count
        /\ resp = 400

\* C22: a status, pause, resume or cancel request naming a job id that is not
\* in the registry the endpoint looks in fails with 404 and changes neither
\* the registries nor any field of any job.
C22_UnknownJobNotFound ==
    [][\A j \in BulkIds :
           /\ (/\ j \notin active_jobs
               /\ (get_bulk_capture_status(j) \/ pause_bulk_capture(j)
                      \/ resume_bulk_capture(j) \/ cancel_bulk_capture(j))) =>
                  (/\ resp' = 404
                   /\ UNCHANGED <<jobs, active_jobs, service_active_jobs>>)
           /\ (/\ j \notin service_active_jobs
               /\ (get_job(j) \/ pause_job(j) \/ resume_job(j) \/ cancel_job(j))) =>
                  (/\ resp' = 404
                   /\ UNCHANGED <<jobs, active_jobs, service_active_jobs>>)]_vars

\* a job that ran and was evicted from its registry, its id answered with 404
C22_Witness ==
    \E j \in BulkIds :
        /\ jobs[j].kind = "service"
        /\ jobs[j].pc = "done"
        /\ j \notin service_active_jobs
        /\ resp = 404

\* C23: a bulk capture start request made while the camera is not connected
\* is rejected with 503, one naming a session that does not exist with 404;
\* either way no job is created and the registries are unchanged.
C23_StartRejectedCreatesNoJob ==
    [][\A j \in BulkIds, n \in Counts, iv \in Intervals, s \in SessionArgs :
           (/\ start_bulk_capture(j, n, iv, s) \/ v2_start_bulk_capture(j, n, iv, s)
            /\ ~is_connected \/ (s # NoSession /\ s \notin sessions)) =>
               (/\ resp' = IF ~is_connected THEN 503 ELSE 404
                /\ UNCHANGED <<jobs, active_jobs, service_active_jobs>>)]_vars

\* a step of job j's own task, or a request addressed to job id j
ActsOn(j) ==
    \/ \E n \in Counts : v2_start_bulk_capture(j, n, 0, NoSession)
    \/ pause_job(j) \/ resume_job(j) \/ cancel_job(j)
    \/ run(j)
    \/ WakeFromPauseWait(j)
    \/ \E dev \in DeviceOutcomes : CaptureReturns(j, dev)
    \/ _cleanup_after_delay(j)

\* C24: a step of one job's task (its fatal error, its cancellation, its
\* completion, its eviction included) and a control call addressed to one job
\* id change no field of any other job and leave every other job's registry
\* membership as it was; a job's fields change only in such a step of its own.
C24_JobsAreIsolated ==
    [][\A j \in BulkIds, k \in BulkIds :
           /\ (j # k /\ ActsOn(j)) =>
                  /\ jobs'[k] = jobs[k]
                  /\ (k \in service_active_jobs') = (k \in service_active_jobs)
           /\ (jobs'[k] # jobs[k]) => ActsOn(k)]_vars

\* one job ended in 'error', the other still registered, running and past its
\* first frame
C24_Witness ==
    \E j \in BulkIds, k \in BulkIds :
        /\ j # k
        /\ jobs[j].status \in {"error", "cancelled", "completed"}
        /\ jobs[j].pc = "done"
        /\ j \notin service_active_jobs
        /\ k \in service_active_jobs
        /\ jobs[k].status = "running"
        /\ jobs[k].progress >= 1
        /\ jobs[k].progress < jobs[k].count

\* i + 1 in BulkCaptureJob.run: the index of the frame the loop is at
frame_index(job) == job.progress + 1

\* frame_num in CalibrationJob.run
frame_num(job) == job.completed_frames + job.failed_frames + 1

\* C25: within one job, capture calls are issued in strictly increasing
\* frame-index order starting from 1. A capture in flight has an index in
\* 1..count; a step that issues a capture issues it for the index right after
\* the last one attempted (1 for a new job); the job's own previous capture has
\* returned by then, and the count of attempted frames never goes down.
C25_FrameIndexIncreases ==
    [][/\ \A j \in BulkIds :
             LET old == jobs[j]
                 new == jobs'[j]
             IN  /\ (old.kind = "none" /\ new.kind # "none") => frame_index(new) = 1
                 /\ new.progress >= old.progress
                 /\ (new.pc = "capturing") =>
                        (frame_index(new) >= 1 /\ frame_index(new) <= new.count)
                 /\ (new.pc = "capturing" /\ new # old) =>
                        IF old.pc = "capturing"
                        THEN /\ \E dev \in DeviceOutcomes : CaptureReturns(j, dev)
                             /\ frame_index(new) = frame_index(old) + 1
                        ELSE frame_index(new) = old.progress + 1
                 /\ (old.pc = "capturing" /\ new # old) =>
                        new.progress = frame_index(old)
       /\ \A c \in CalIds :
             LET old == cal_jobs[c]
                 new == cal_jobs'[c]
             IN  /\ (~old.created /\ new.created) => frame_num(new) = 1
                 /\ frame_num(new) >= frame_num(old)
                 /\ (new.pc = "capturing") =>
                        (frame_num(new) >= 1 /\ frame_num(new) <= new.total_frames)
                 /\ (new.pc = "capturing" /\ new # old) =>
                        IF old.pc = "capturing"
                        THEN /\ \E dev \in DeviceOutcomes : CalCaptureReturns(c, dev, "ok")
                             /\ frame_num(new) = frame_num(old) + 1
                        ELSE frame_num(new) = frame_num(old)
                 /\ (old.pc = "capturing" /\ new # old) =>
                        frame_num(new) = frame_num(old) + 1]_vars

\* both jobs past a failed first frame, the bulk job capturing its second frame
\* and the calibration job waiting to capture its second
C25_Witness ==
    /\ jobs["b1"].pc = "capturing"
    /\ frame_index(jobs["b1"]) = 2
    /\ jobs["b1"].failed_captures = 1
    /\ \E c \in CalIds :
           /\ cal_jobs[c].pc \in {"interval", "pause_wait"}
           /\ frame_num(cal_jobs[c]) = 2

\* C26: CameraService.connect() called while the service is already connected
\* leaves it connected, whatever the device initialisation does.
C26_ConnectWhileConnectedKeepsConnection ==
    [][\A dev \in DeviceOutcomes :
           (is_connected /\ CameraService_connect(dev)) => is_connected']_vars

\* C27: CameraService.capture called while the service is disconnected raises
\* CameraNotConnectedError, so that POST /api/camera/capture answers through
\* its not-connected handler (503), and leaves _camera as it was.
C27_CaptureDisconnectedRaisesNotConnected ==
    [][/\ \A dev \in DeviceOutcomes :
              (~is_connected /\ CameraService_capture(dev)) =>
                  (returned' = <<"capture", "CameraNotConnectedError">> /\ ~is_connected')
       /\ (~is_connected /\ capture_or_preview("capture")) =>
              (resp' = 503 /\ ~is_connected')]_vars

\* C28: CameraService.disconnect() on a disconnected service returns True and
\* leaves it disconnected; after any disconnect() that returns True the
\* service is disconnected, and a second disconnect() then returns True and
\* changes nothing.
C28_DisconnectIdempotent ==
    [][\A dev \in DeviceOutcomes :
           /\ (~is_connected /\ CameraService_disconnect(dev)) =>
                  (returned' = <<"disconnect", "True">> /\ ~is_connected')
           /\ (CameraService_disconnect(dev) /\ returned' = <<"disconnect", "True">>) =>
                  /\ ~is_connected'
                  /\ \A d2 \in DeviceOutcomes :
                         /\ disconnect(_camera', d2) = _camera'
                         /\ disconnect_returns(_camera', d2) = "True"
           /\ (api_op = "disconnect" /\ ApiReturns(dev) /\ resp' = 200) => ~is_connected'
           /\ (~is_connected /\ disconnect_camera) => (resp' = 200 /\ ~is_connected')]_vars

\* disconnect() has just returned True and the service is disconnected, with a
\* bulk capture job stopped by the missing connection
C28_Witness ==
    /\ returned = <<"disconnect", "True">>
    /\ ~is_connected
    /\ \E j \in Created : jobs[j].status = "error"

\* C29: no job stored in a job registry stays in status 'pending': once a
\* start or batch request has stored a job, its status leaves 'pending'.
C29_PendingJobGetsStarted ==
    \A k \in CalibrationIds :
        (k \in active_calibration_jobs /\ calibration_jobs[k].status = "pending")
            ~> (calibration_jobs[k].status # "pending")

\* C30: every successful start request returns a job identifier that differs
\* from every identifier an earlier start request returned.
C30_JobIdsDistinct ==
    \A i \in DOMAIN job_ids, k \in DOMAIN job_ids :
        i # k => job_ids[i] # job_ids[k]

\* C31: within one job, the file names generated for different frame indices
\* are different, whether or not they are generated within the same second:
\* for the names the bulk capture and the session calibration jobs have
\* generated, and for calibration_api's _generate_filename applied to the
\* calibration request on every pair of indices, at times up to now and with
\* every pair of temperature readings.
C31_FrameNamesDistinct ==
    /\ \A e1 \in written, e2 \in written :
           (e1[1] = e2[1] /\ e1[2] # e2[2]) => e1[3] # e2[3]
    /\ \A c \in CalIds, n1 \in 1..MaxCount, n2 \in 1..MaxCount, t \in 0..now,
          c1 \in {"None", "-10.0"}, c2 \in {"None", "-10.0"} :
           (cal_jobs[c].created /\ n1 < n2) =>
               calibration_generate_filename(cal_jobs[c], c1, n1, t)
                   # calibration_generate_filename(cal_jobs[c], c2, n2, now)

\* the bulk capture job has generated the names of its frames 1 and 2 within
\* the current second, and the calibration job of its first two frames
C31_Witness ==
    /\ <<"b1", 1, BulkDestination(jobs["b1"], 1, now)>> \in written
    /\ <<"b1", 2, BulkDestination(jobs["b1"], 2, now)>> \in written
    /\ \E c \in CalIds :
           /\ <<c, 1, CalDestination(cal_jobs[c], 1, now)>> \in written
           /\ <<c, 2, CalDestination(cal_jobs[c], 2, now)>> \in written

\* a bulk capture job whose task has not ended
Unfinished(j) == jobs[j].kind # "none" /\ jobs[j].pc # "done"

\* C32: under fair scheduling of its task, a bulk capture job that is never
\* paused or cancelled and never fails with an error reaches status
\* 'completed'; and every started job that is not left paused for ever ends
\* its task with status completed, cancelled or error.
C32_BulkJobTerminates ==
    \A j \in SoloIds :
        /\ [](~jobs[j]._paused /\ ~jobs[j]._cancelled /\ jobs[j].status # "error")
               => (Unfinished(j) ~> (jobs[j].pc = "done" /\ jobs[j].status = "completed"))
        /\ <>[](~jobs[j]._paused \/ jobs[j]._cancelled)
               => (Unfinished(j) ~>
                      (/\ jobs[j].pc = "done"
                       /\ jobs[j].status \in {"completed", "cancelled", "error"}))

\* a legacy job that ran to completion with every capture succeeding
C32_Witness ==
    \E j \in SoloIds :
        /\ jobs[j].kind = "legacy"
        /\ jobs[j].pc = "done"
        /\ jobs[j].status = "completed"
        /\ jobs[j].successful_captures = jobs[j].count
        /\ jobs[j].count > 1

\* C33: a cancel request on a paused bulk job is accepted and sets the cancel
\* flag; from then on the task captures nothing more (progress keeps the value
\* it had when the job was paused), leaves the pause loop and ends with status
\* "cancelled".
C33_CancelEndsPause ==
    /\ [][\A j \in SoloIds :
              /\ (/\ jobs[j].status = "paused"
                  /\ \/ j \in active_jobs /\ cancel_bulk_capture(j)
                     \/ j \in service_active_jobs /\ cancel_job(j))
                     => (resp' = 200 /\ jobs'[j]._cancelled)
              /\ (jobs[j]._cancelled /\ Unfinished(j))
                     => jobs'[j].progress = jobs[j].progress]_vars
    /\ \A j \in SoloIds :
           (jobs[j]._paused /\ jobs[j]._cancelled /\ Unfinished(j))
               ~> (jobs[j].pc = "done" /\ jobs[j].status = "cancelled")

C33_Witness ==
    \E j \in SoloIds :
        /\ jobs[j]._paused /\ jobs[j]._cancelled
        /\ jobs[j].pc = "done" /\ jobs[j].status = "cancelled"
        /\ jobs[j].progress >= 1 /\ jobs[j].progress < jobs[j].count

\* C34: while a bulk job with interval_seconds > 0 is reported with an
\* estimate, the projected remaining time (count - progress) * interval_seconds
\* of that estimate never increases when progress increases, and a job with
\* progress = count is reported without an estimate.
C34_RemainingTimeNeverIncreases ==
    /\ [](\A j \in SoloIds :
              (jobs[j].kind # "none" /\ jobs[j].progress = jobs[j].count)
                  => estimated_completion(jobs[j]) = <<"None">>)
    /\ [][\A j \in SoloIds :
              (/\ jobs[j].kind # "none"
               /\ jobs[j].interval_seconds > 0
               /\ jobs'[j].count = jobs[j].count
               /\ jobs'[j].interval_seconds = jobs[j].interval_seconds
               /\ jobs'[j].progress > jobs[j].progress
               /\ estimated_completion(jobs[j]) # <<"None">>
               /\ estimated_completion(jobs'[j]) # <<"None">>)
                  => /\ estimated_completion(jobs'[j])[2] <= estimated_completion(jobs[j])[2]
                     /\ estimated_completion(jobs'[j])[2]
                            = (jobs[j].count - jobs'[j].progress) * jobs[j].interval_seconds]_vars

C34_Witness ==
    \E j \in SoloIds :
        /\ Registered(j)
        /\ jobs[j].interval_seconds > 0
        /\ jobs[j].progress >= 1
        /\ estimated_completion(jobs[j])
               = <<"in", (jobs[j].count - jobs[j].progress) * jobs[j].interval_seconds>>

\* C35: between two consecutive frame captures of one bulk job, for every
\* allowed interval_seconds (0 included), the task is suspended at least once,
\* so that a pending pause or cancel request is processed before the next
\* frame: the job never passes from one blocking capture call straight into
\* the next one.
C35_ControlPointBetweenFrames ==
    [][\A j \in SoloIds :
          ~(/\ jobs[j].pc = "capturing"
            /\ jobs'[j].pc = "capturing"
            /\ jobs'[j].progress = jobs[j].progress + 1)]_vars

\* C36: wherever the task of a bulk job is suspended or finished (the states
\* a status query can see), progress = successful_captures + failed_captures
\* and 0 <= progress <= count, so the remaining count max(0, count - progress)
\* that get_status reports is count - progress.
C36_ProgressIsSumOfOutcomes ==
    \A j \in SoloIds :
        (jobs[j].kind # "none" /\ jobs[j].pc # "capturing")
            => /\ jobs[j].progress = jobs[j].successful_captures + jobs[j].failed_captures
               /\ 0 <= jobs[j].progress
               /\ jobs[j].progress <= jobs[j].count

C36_Witness ==
    \E j \in SoloIds :
        /\ Registered(j)
        /\ jobs[j].pc \in {"interval", "pause_wait", "done"}
        /\ jobs[j].successful_captures >= 1
        /\ jobs[j].failed_captures >= 1
        /\ jobs[j].progress = jobs[j].count

\* C37: in every state of a calibration job (of either module) the number of
\* entries of captured_files equals completed_frames, and
\* completed_frames + failed_frames <= total_frames.
C37_CapturedFilesMatchCompleted ==
    /\ \A c \in CalIds :
           cal_jobs[c].created
               => /\ cal_jobs[c].captured_files = cal_jobs[c].completed_frames
                  /\ cal_jobs[c].completed_frames + cal_jobs[c].failed_frames
                         <= cal_jobs[c].total_frames
    /\ \A k \in CalibrationIds :
           calibration_jobs[k].created
               => /\ calibration_jobs[k].captured_files = calibration_jobs[k].completed_frames
                  /\ calibration_jobs[k].completed_frames + calibration_jobs[k].failed_frames
                         <= calibration_jobs[k].total_frames

C37_Witness ==
    /\ \E c \in CalIds :
           /\ cal_jobs[c].captured_files >= 1
           /\ cal_jobs[c].failed_frames >= 1
           /\ cal_jobs[c].pc = "done"
    /\ \E k \in CalibrationIds :
           /\ calibration_jobs[k].captured_files >= 1
           /\ calibration_jobs[k].failed_frames >= 1
           /\ calibration_jobs[k].pc = "done"

\* C38: no two capture calls issued by different jobs target the same
\* destination file (directory and image name): in particular two bulk jobs
\* without base_name and session never generate the same name for the same
\* frame index.
C38_JobsWriteDistinctFiles ==
    \A e1, e2 \in written : e1[1] # e2[1] => e1[3] # e2[3]

\* C39: each frame a session bulk job counts in successful_captures was
\* registered in the session by exactly one completed add_image_to_session
\* call (the step in which a capture returns raises successful_captures by
\* the number of images it added to the session), and the session's
\* statistics.total_captures always equals the length of its images list.
C39_SuccessesAreRegisteredOnce ==
    /\ [](\A s \in SessionIds : session_data[s].total_captures = session_data[s].images)
    /\ [][\A j \in SoloIds :
              (/\ jobs[j].pc = "capturing"
               /\ jobs[j].session_id # NoSession
               /\ jobs'[j] # jobs[j])
                  => jobs'[j].successful_captures - jobs[j].successful_captures
                        = session_data'[jobs[j].session_id].images
                             - session_data[jobs[j].session_id].images]_vars

C39_Witness ==
    \E j \in SoloIds :
        /\ jobs[j].session_id # NoSession
        /\ jobs[j].pc = "done"
        /\ jobs[j].successful_captures >= 1
        /\ jobs[j].failed_captures >= 1
        /\ session_data[jobs[j].session_id].images = jobs[j].successful_captures
        /\ session_data[jobs[j].session_id].total_captures = jobs[j].successful_captures

\* C40: the active session id of a SessionService is None or the id of a
\* session that exists, whatever create_session, delete_session,
\* set_active_session and get_active_session calls were made before.
C40_ActiveSessionExists ==
    \A service \in SessionServices :
        _active_session_id[service] = "None" \/ _active_session_id[service] \in sessions

====
